---- MODULE Spec2Model ----
(***************************************************************************)
(* k4a_mkv2image: the control thread of class kinect (constructor, run,    *)
(* destructor) and the three exporter threads that drain the color, depth  *)
(* and infrared queues to numbered files.                                  *)
(***************************************************************************)
EXTENDS Integers, Sequences, FiniteSets, TLC

\* ------------------------------------------------------------------ bounds
\* Frames the recording holds at most.
MaxFrames == 2
\* Faults in one run, at most: sub-images missing from the captures of the
\* recording, and write calls (ofstream::write, cv::imwrite) that fail.
MaxFaults == 1
\* The --quality values tried run from QBelow under 0 to QAbove over 100.
QBelow == 5
QAbove == 50

\* ------------------------------------------------------- program constants
DefaultQuality == 95
EXIT_SUCCESS == 0
\* Exit status of a process ended by std::terminate (SIGABRT).
EXIT_ABORT == 128 + 6

Modalities == {"color", "depth", "infrared"}
\* The --quality option left out.
NoArg == [has |-> FALSE, value |-> 0]
NoImage == [ts |-> -1, buf |-> <<"null">>]
NoData == [ts |-> -1, buf |-> <<"null">>]
EmptyBuffer == <<>>

\* Command lines: what cv::CommandLineParser finds in argv.
ArgKinds == {"help", "bad", "noinput", "notfile", "ok"}
QualityArgs == {NoArg} \cup [has : {TRUE}, value : (0 - QBelow)..(100 + QAbove)]

\* A capture of the recording: which sub-images it holds, and whether the
\* transformation of its depth image yields an image (tr).
Frames == [color : BOOLEAN, depth : BOOLEAN, infrared : BOOLEAN, tr : BOOLEAN]

\* Device timestamp of the sub-image of modality m in the n-th capture.
DeviceTimestamp(m, n) == 10 * n + (IF m = "color" THEN 1 ELSE 0)

VARIABLES
    \* inputs
    argv,                    \* [kind, quality, transform, display]
    mkv,                     \* the recording: [open_ok, tracks]
    fsys,                    \* [root, sub, error]: output directories
    source,                  \* captures read from the playback so far
    \* control thread
    pc, exit_status, exit_reason,
    \* kinect fields
    is_quit, is_color, is_depth, is_infrared,
    is_transform, is_show, params,
    playback, transformation,
    capture, color_image, depth_image, infrared_image, transformed_depth_image,
    mat, windows,
    queue, thread,
    \* exporter locals
    index, data,
    \* history
    pushed, written, fails

cfgvars == <<argv, mkv>>
mainvars == <<pc, exit_status, exit_reason>>
optvars == <<is_transform, is_show, params>>
trackvars == <<is_color, is_depth, is_infrared>>
resvars == <<playback, transformation>>
imgvars == <<capture, color_image, depth_image, infrared_image, transformed_depth_image>>
viewvars == <<mat, windows>>
expvars == <<thread, index, data, written, fails>>
vars == <<cfgvars, fsys, source, mainvars, is_quit, trackvars, optvars, resvars,
          imgvars, viewvars, queue, pushed, expvars>>

IsEnabled(m) ==
    CASE m = "color" -> is_color
      [] m = "depth" -> is_depth
      [] m = "infrared" -> is_infrared

\* kinect::kinect: the member initialisers, before initialize() runs.
InitFields ==
    /\ source = <<>>
    /\ pc = "initialize_parameter"
    /\ exit_status = -1
    /\ exit_reason = "running"
    /\ is_quit = TRUE
    /\ is_color = FALSE
    /\ is_depth = FALSE
    /\ is_infrared = FALSE
    /\ is_transform = FALSE
    /\ is_show = FALSE
    /\ params = -1
    /\ playback = "closed"
    /\ transformation = FALSE
    /\ capture = 0
    /\ color_image = NoImage
    /\ depth_image = NoImage
    /\ infrared_image = NoImage
    /\ transformed_depth_image = NoImage
    /\ mat = {}
    /\ windows = {}
    /\ queue = [m \in Modalities |-> <<>>]
    /\ thread = [m \in Modalities |-> "none"]
    /\ index = [m \in Modalities |-> 0]
    /\ data = [m \in Modalities |-> NoData]
    /\ pushed = [m \in Modalities |-> <<>>]
    /\ written = [m \in Modalities |-> <<>>]
    /\ fails = 0

\* Every command line without --quality, every recording, and an output root
\* that is absent or present and empty.
Init ==
    /\ argv \in [kind : ArgKinds, quality : {NoArg},
                 transform : BOOLEAN, display : BOOLEAN]
    /\ mkv \in [open_ok : BOOLEAN, tracks : SUBSET Modalities]
    /\ fsys \in [root : {"absent", "empty"}, sub : {{}},
                 error : {"none", "root", "sub"}]
    /\ InitFields

\* Every value of --quality, on a recording with the infrared track alone,
\* shown on screen.
InitQuality ==
    /\ argv \in [kind : ArgKinds, quality : QualityArgs,
                 transform : {FALSE}, display : {TRUE}]
    /\ mkv \in [open_ok : BOOLEAN, tracks : {{"infrared"}}]
    /\ fsys \in [root : {"absent", "empty"}, sub : {{}},
                 error : {"none", "root", "sub"}]
    /\ InitFields

\* ---------------------------------------------------------------- helpers
Min(a, b) == IF a < b THEN a ELSE b
Max(a, b) == IF a > b THEN a ELSE b

\* Quality with std::max left out.
Quality_NoMax(q) == IF ~q.has THEN DefaultQuality ELSE Min(q.value, 100)

\* std::min( std::max( 0, quality ), 100 ), or 95 without the option.
Quality(q) == IF ~q.has THEN DefaultQuality ELSE Min(Max(0, q.value), 100)

\* filesystem::create_directories: true iff a directory was created.
create_directories(exists) == ~exists

Names(tracks) == {m \in Modalities : m \in tracks}

\* An exception leaves the constructor: main catches it, prints it, and goes
\* on to its return statement. The destructor does not run.
Throw(reason) ==
    /\ pc' = "return"
    /\ exit_reason' = reason
    /\ UNCHANGED exit_status

\* std::exit: the process ends where it stands, no destructor runs.
Exit(reason, status) ==
    /\ pc' = "exited"
    /\ exit_reason' = reason
    /\ exit_status' = status

Goto(l) ==
    /\ pc' = l
    /\ UNCHANGED <<exit_status, exit_reason>>

\* ------------------------------------------------------------------ setup
initialize_parameter ==
    /\ pc = "initialize_parameter"
    /\ UNCHANGED <<cfgvars, fsys, source, is_quit, trackvars, resvars, imgvars,
                   viewvars, queue, pushed, expvars>>
    /\ \/ /\ argv.kind = "help"
          /\ Exit("help", EXIT_SUCCESS)
          /\ UNCHANGED optvars
       \/ /\ argv.kind = "bad"
          /\ Throw("arguments")
          /\ UNCHANGED optvars
       \/ /\ argv.kind \in {"noinput", "notfile"}
          /\ Throw("input")
          /\ UNCHANGED optvars
       \/ /\ argv.kind = "ok"
          /\ is_transform' = argv.transform
          /\ params' = Quality(argv.quality)
          /\ is_show' = argv.display
          /\ Goto("initialize_playback")

initialize_playback ==
    /\ pc = "initialize_playback"
    /\ UNCHANGED <<cfgvars, fsys, source, is_quit, trackvars, optvars, imgvars,
                   viewvars, queue, pushed, expvars>>
    /\ \/ /\ ~mkv.open_ok
          /\ Throw("open")
          /\ UNCHANGED resvars
       \/ /\ mkv.open_ok
          /\ playback' = "open"
          /\ transformation' = TRUE
          /\ Goto("initialize_save")

StartThreads ==
    thread' = [m \in Modalities |-> IF IsEnabled(m)' THEN "start" ELSE "none"]

\* initialize_save starting the threads before it creates the subdirectories.
initialize_save_ThreadsFirst ==
    /\ pc = "initialize_save"
    /\ UNCHANGED <<cfgvars, source, is_quit, optvars, resvars, imgvars,
                   viewvars, queue, pushed, index, data, written, fails>>
    /\ \/ /\ \/ fsys.error = "root"
             \/ ~create_directories(fsys.root # "absent")
          /\ Throw("root directory")
          /\ UNCHANGED <<fsys, trackvars, thread>>
       \/ /\ fsys.error # "root"
          /\ create_directories(fsys.root # "absent")
          /\ is_color' = ("color" \in mkv.tracks)
          /\ is_depth' = ("depth" \in mkv.tracks)
          /\ is_infrared' = ("infrared" \in mkv.tracks)
          /\ StartThreads
          /\ \/ /\ fsys.error = "sub"
                /\ Names(mkv.tracks) # {}
                /\ fsys' = [fsys EXCEPT !.root = "created"]
                /\ Throw("sub directory")
             \/ /\ ~(fsys.error = "sub" /\ Names(mkv.tracks) # {})
                /\ fsys' = [fsys EXCEPT !.root = "created", !.sub = Names(mkv.tracks)]
                /\ Goto("run")

initialize_save ==
    /\ pc = "initialize_save"
    /\ UNCHANGED <<cfgvars, source, is_quit, optvars, resvars, imgvars,
                   viewvars, queue, pushed, index, data, written, fails>>
    /\ \/ /\ \/ fsys.error = "root"
             \/ ~create_directories(fsys.root # "absent")
          /\ Throw("root directory")
          /\ UNCHANGED <<fsys, trackvars, thread>>
       \/ /\ fsys.error # "root"
          /\ create_directories(fsys.root # "absent")
          /\ is_color' = ("color" \in mkv.tracks)
          /\ is_depth' = ("depth" \in mkv.tracks)
          /\ is_infrared' = ("infrared" \in mkv.tracks)
          /\ \/ /\ fsys.error = "sub"
                /\ Names(mkv.tracks) # {}
                /\ fsys' = [fsys EXCEPT !.root = "created"]
                /\ Throw("sub directory")
                /\ UNCHANGED thread
             \/ /\ ~(fsys.error = "sub" /\ Names(mkv.tracks) # {})
                /\ fsys' = [fsys EXCEPT !.root = "created", !.sub = Names(mkv.tracks)]
                /\ StartThreads
                /\ Goto("run")

\* main: return 0, after run() and the destructor, or after a catch block.
main_return ==
    /\ pc = "return"
    /\ pc' = "exited"
    /\ exit_status' = 0
    /\ UNCHANGED <<exit_reason, cfgvars, fsys, source, is_quit, trackvars, optvars,
                   resvars, imgvars, viewvars, queue, pushed, expvars>>

\* -------------------------------------------------------------------- run
handle(image) == image # NoImage

\* capture.get_color_image(), get_depth_image(), get_ir_image() of the n-th
\* capture f: the sub-image, or an image without handle.
get_image(m, f, n) ==
    IF f[m]
    THEN [ts |-> DeviceTimestamp(m, n), buf |-> <<m, n>>]
    ELSE NoImage

\* k4a::transformation::depth_image_to_color_camera on the depth image of the
\* n-th capture f: a new image (its own device timestamp is 0), or none.
depth_image_to_color_camera(image, f, n) ==
    IF f.tr
    THEN [ts |-> 0, buf |-> <<"transformed", n>>]
    ELSE NoImage

\* std::vector( get_buffer(), get_buffer() + get_size() )
get_buffer(image) == IF handle(image) THEN image.buf ELSE EmptyBuffer

make_pair(buffer, timestamp) == [ts |-> timestamp, buf |-> buffer]

\* update_color: the image it leaves in color_image, and what it pushes.
update_color_image(f, n) ==
    IF ~is_color THEN color_image ELSE get_image("color", f, n)

update_color(f, n) ==
    LET image == update_color_image(f, n) IN
    IF ~is_color \/ ~handle(image)
    THEN <<>>
    ELSE <<make_pair(get_buffer(image), image.ts)>>

\* update_depth fetching the image before it looks at is_depth.
update_depth_image_Unguarded(f, n) == get_image("depth", f, n)

\* update_depth: the image it leaves in depth_image, and what it pushes.
update_depth_image(f, n) ==
    IF ~is_depth THEN depth_image ELSE get_image("depth", f, n)

\* update_depth without its return on is_transform.
update_depth_Both(f, n) ==
    LET image == update_depth_image(f, n) IN
    IF ~is_depth \/ ~handle(image)
    THEN <<>>
    ELSE <<make_pair(get_buffer(image), image.ts)>>

update_depth(f, n) ==
    LET image == update_depth_image(f, n) IN
    IF ~is_depth \/ ~handle(image) \/ is_transform
    THEN <<>>
    ELSE <<make_pair(get_buffer(image), image.ts)>>

\* update_infrared: the image it leaves in infrared_image, and what it pushes.
update_infrared_image(f, n) ==
    IF ~is_infrared THEN infrared_image ELSE get_image("infrared", f, n)

\* update_infrared handing the image to the preview instead of the queue.
update_infrared_Preview(f, n) ==
    LET image == update_infrared_image(f, n) IN
    IF ~is_infrared \/ ~handle(image) \/ is_show
    THEN <<>>
    ELSE <<make_pair(get_buffer(image), image.ts)>>

update_infrared(f, n) ==
    LET image == update_infrared_image(f, n) IN
    IF ~is_infrared \/ ~handle(image)
    THEN <<>>
    ELSE <<make_pair(get_buffer(image), image.ts)>>

\* update_transformation, called when is_transform: the image it leaves in
\* transformed_depth_image, and what it pushes.
update_transformation_image(f, n) ==
    LET depth == update_depth_image(f, n) IN
    IF ~is_transform \/ ~handle(depth)
    THEN transformed_depth_image
    ELSE depth_image_to_color_camera(depth, f, n)

\* update_transformation taking the timestamp of the transformed image.
update_transformation_OwnTimestamp(f, n) ==
    LET depth == update_depth_image(f, n)
        image == update_transformation_image(f, n)
    IN  IF ~is_transform \/ ~handle(depth)
        THEN <<>>
        ELSE <<make_pair(get_buffer(image), image.ts)>>

update_transformation(f, n) ==
    LET depth == update_depth_image(f, n)
        image == update_transformation_image(f, n)
    IN  IF ~is_transform \/ ~handle(depth)
        THEN <<>>
        ELSE <<make_pair(get_buffer(image), depth.ts)>>

\* What one pass of update() pushes onto the queue of modality m, in order.
Pushes(m, f, n) ==
    CASE m = "color" -> update_color(f, n)
      [] m = "depth" -> update_depth(f, n) \o update_transformation(f, n)
      [] m = "infrared" -> update_infrared(f, n)

\* Sub-images missing from a capture, an empty transformation counted as one.
FrameGaps(f) == Cardinality({k \in {"color", "depth", "infrared", "tr"} : ~f[k]})

RECURSIVE Gaps(_)
Gaps(captures) ==
    IF captures = <<>> THEN 0 ELSE FrameGaps(Head(captures)) + Gaps(Tail(captures))

\* playback.get_next_capture: the captures the recording can hold next.
get_next_capture ==
    {f \in Frames :
        /\ Len(source) < MaxFrames
        /\ ~f.depth => f.tr
        /\ Gaps(source) + FrameGaps(f) + fails <= MaxFaults}

\* draw_color, draw_depth, draw_transformation, draw_infrared, on the images
\* update() left: each keeps a cv::Mat of its image when is_show (and then
\* releases the image handle). The cv::Mat that are not empty afterwards.
draw(f, n) ==
    IF ~is_show
    THEN mat
    ELSE mat \cup
         {w \in {"color", "depth", "infrared", "transformed depth"} :
            CASE w = "color" -> handle(update_color_image(f, n))
              [] w = "depth" -> handle(update_depth_image(f, n))
              [] w = "infrared" -> handle(update_infrared_image(f, n))
              [] w = "transformed depth" -> handle(update_transformation_image(f, n))}

\* show: show_color, show_depth or show_transformation, show_infrared call
\* cv::imshow for every cv::Mat that is not empty. The windows afterwards.
show(mats) ==
    IF ~is_show
    THEN windows
    ELSE windows \cup
         {w \in mats : w \in {"color", "infrared",
                              IF is_transform THEN "transformed depth" ELSE "depth"}}

\* cv::waitKey( 1 ): a key arrives only while a window exists.
waitKey(shown) == IF shown = {} THEN {"none"} ELSE {"none", "q"}

\* update_frame ending the process with EXIT_FAILURE.
update_frame_Failure ==
    /\ Exit("eof", 1)
    /\ UNCHANGED <<source, imgvars, viewvars, queue, pushed>>

\* update_frame: at the end of the recording std::exit( EXIT_SUCCESS ).
update_frame ==
    /\ Exit("eof", EXIT_SUCCESS)
    /\ UNCHANGED <<source, imgvars, viewvars, queue, pushed>>

\* One pass of the loop of run(): update() (update_frame, update_color,
\* update_depth, update_infrared, update_transformation, capture.reset()),
\* draw(), show(), cv::waitKey and the break on 'q'.
run ==
    /\ pc = "run"
    /\ UNCHANGED <<cfgvars, fsys, is_quit, trackvars, optvars, resvars, expvars>>
    /\ \/ update_frame
       \/ \E f \in get_next_capture :
             LET n == Len(source) + 1 IN
             /\ source' = Append(source, f)
             /\ queue' = [m \in Modalities |-> queue[m] \o Pushes(m, f, n)]
             /\ pushed' = [m \in Modalities |-> pushed[m] \o Pushes(m, f, n)]
             /\ capture' = 0
             /\ color_image' = NoImage
             /\ depth_image' = NoImage
             /\ infrared_image' = NoImage
             /\ transformed_depth_image' = NoImage
             /\ mat' = draw(f, n)
             /\ windows' = show(mat')
             /\ \E key \in waitKey(windows') :
                   Goto(IF key = "q" THEN "finalize" ELSE "run")

\* --------------------------------------------------------------- teardown
\* finalize: transformation.destroy() and playback.close().
finalize_release ==
    /\ pc = "finalize"
    /\ Goto("finalize_quit")
    /\ transformation' = FALSE
    /\ playback' = "closed"
    /\ UNCHANGED <<cfgvars, fsys, source, is_quit, trackvars, optvars,
                   imgvars, viewvars, queue, pushed, expvars>>

\* finalize: is_quit = true.
finalize_quit ==
    /\ pc = "finalize_quit"
    /\ Goto("join_color")
    /\ is_quit' = TRUE
    /\ UNCHANGED <<cfgvars, fsys, source, trackvars, optvars, resvars,
                   imgvars, viewvars, queue, pushed, expvars>>

joinable(m) == thread[m] \notin {"none", "joined"}

AfterJoin(m) ==
    CASE m = "color" -> "join_depth"
      [] m = "depth" -> "join_infrared"
      [] m = "infrared" -> "finalize_windows"

\* finalize: if( thread.joinable() ){ thread.join(); }. join() returns once
\* the exporter has returned.
finalize_join(m) ==
    /\ pc = "join_" \o m
    /\ joinable(m) => thread[m] = "done"
    /\ thread' = [thread EXCEPT ![m] = IF joinable(m) THEN "joined" ELSE @]
    /\ Goto(AfterJoin(m))
    /\ UNCHANGED <<cfgvars, fsys, source, is_quit, trackvars, optvars, resvars,
                   imgvars, viewvars, queue, pushed, index, data, written, fails>>

\* finalize: cv::destroyAllWindows(); the destructor returns to main.
finalize_windows ==
    /\ pc = "finalize_windows"
    /\ windows' = {}
    /\ pc' = "return"
    /\ exit_reason' = "quit"
    /\ UNCHANGED <<exit_status, cfgvars, fsys, source, is_quit, trackvars, optvars,
                   resvars, imgvars, mat, queue, pushed, expvars>>

\* -------------------------------------------------------------- exporters
alive == pc # "exited"

\* An exporter that leaves is_quit as the constructor initialised it.
export_start_KeepFlag(m) ==
    /\ alive
    /\ thread[m] = "start"
    /\ index' = [index EXCEPT ![m] = 0]
    /\ thread' = [thread EXCEPT ![m] = "loop"]
    /\ UNCHANGED <<cfgvars, fsys, source, mainvars, is_quit, trackvars, optvars,
                   resvars, imgvars, viewvars, queue, pushed, data, written, fails>>

\* export_color, export_depth, export_infrared: is_quit = false; index = 0.
export_start(m) ==
    /\ alive
    /\ thread[m] = "start"
    /\ is_quit' = FALSE
    /\ index' = [index EXCEPT ![m] = 0]
    /\ thread' = [thread EXCEPT ![m] = "loop"]
    /\ UNCHANGED <<cfgvars, fsys, source, mainvars, trackvars, optvars, resvars,
                   imgvars, viewvars, queue, pushed, data, written, fails>>

\* while( !( is_quit && queue.empty() ) )
export_test(m) ==
    /\ alive
    /\ thread[m] = "loop"
    /\ thread' = [thread EXCEPT ![m] = IF is_quit /\ queue[m] = <<>> THEN "done" ELSE "pop"]
    /\ UNCHANGED <<cfgvars, fsys, source, mainvars, is_quit, trackvars, optvars,
                   resvars, imgvars, viewvars, queue, pushed, index, data, written, fails>>

\* queue.try_pop( data ); on failure yield and continue.
export_pop(m) ==
    /\ alive
    /\ thread[m] = "pop"
    /\ IF queue[m] = <<>>
       THEN /\ thread' = [thread EXCEPT ![m] = "loop"]
            /\ UNCHANGED <<queue, data>>
       ELSE /\ data' = [data EXCEPT ![m] = Head(queue[m])]
            /\ queue' = [queue EXCEPT ![m] = Tail(@)]
            /\ thread' = [thread EXCEPT ![m] = "write"]
    /\ UNCHANGED <<cfgvars, fsys, source, mainvars, is_quit, trackvars, optvars,
                   resvars, imgvars, viewvars, pushed, index, written, fails>>

\* export_test and export_pop in one step: the loop condition and try_pop,
\* with no step of another thread between them.
export_loop(m) ==
    /\ alive
    /\ thread[m] = "loop"
    /\ IF queue[m] = <<>>
       THEN /\ thread' = [thread EXCEPT ![m] = IF is_quit THEN "done" ELSE "loop"]
            /\ UNCHANGED <<queue, data>>
       ELSE /\ data' = [data EXCEPT ![m] = Head(queue[m])]
            /\ queue' = [queue EXCEPT ![m] = Tail(@)]
            /\ thread' = [thread EXCEPT ![m] = "write"]
    /\ UNCHANGED <<cfgvars, fsys, source, mainvars, is_quit, trackvars, optvars,
                   resvars, imgvars, viewvars, pushed, index, written, fails>>

\* The file <directory>/<m>/<index>_<timestamp>.<ext> and what it holds.
File(m, seq, entry, content) ==
    [seq |-> seq, ts |-> entry.ts, buf |-> content,
     quality |-> IF m = "infrared" THEN params ELSE -1]

\* ofs.write / cv::imwrite of data under index++; the result is not looked at.
\* cv::Mat over &data.first[0] of an empty vector is undefined: the write
\* stores whatever it reads, fails, or ends the process.
export_write(m) ==
    /\ alive
    /\ thread[m] = "write"
    /\ UNCHANGED <<cfgvars, fsys, source, is_quit, trackvars, optvars,
                   resvars, imgvars, viewvars, queue, pushed>>
    /\ \/ /\ m # "color" /\ data[m].buf = EmptyBuffer
          /\ Exit("abort", EXIT_ABORT)
          /\ UNCHANGED <<thread, index, data, written, fails>>
       \/ /\ UNCHANGED mainvars
          /\ index' = [index EXCEPT ![m] = @ + 1]
          /\ data' = [data EXCEPT ![m] = NoData]
          /\ thread' = [thread EXCEPT ![m] = "loop"]
          /\ \/ /\ written' = [written EXCEPT ![m] =
                        Append(@, File(m, index[m], data[m],
                                       IF m # "color" /\ data[m].buf = EmptyBuffer
                                       THEN <<"garbage">> ELSE data[m].buf))]
                /\ UNCHANGED fails
             \/ /\ Gaps(source) + fails < MaxFaults
                /\ fails' = fails + 1
                /\ UNCHANGED written

Main ==
    \/ initialize_parameter
    \/ initialize_playback
    \/ initialize_save
    \/ run
    \/ finalize_release
    \/ finalize_quit
    \/ \E m \in Modalities : finalize_join(m)
    \/ finalize_windows
    \/ main_return

Exporter(m) ==
    \/ export_start(m)
    \/ export_loop(m)
    \/ export_write(m)

Next ==
    \/ Main
    \/ \E m \in Modalities : Exporter(m)

Spec == Init /\ [][Next]_vars

QualitySpec == InitQuality /\ [][Next]_vars

\* The exporters with the loop condition and try_pop as steps of their own.
ExporterSteps(m) ==
    \/ export_start(m)
    \/ export_test(m)
    \/ export_pop(m)
    \/ export_write(m)

NextSteps ==
    \/ Main
    \/ \E m \in Modalities : ExporterSteps(m)

\* The threads are operating-system threads: each one that can take a step
\* eventually takes one.
FairSpec ==
    /\ Init /\ [][NextSteps]_vars
    /\ WF_vars(Main)
    /\ \A m \in Modalities : WF_vars(ExporterSteps(m))

\* ================================================================= claims
SetupErrors == {"arguments", "input", "open", "root directory", "sub directory"}

\* The constructor has returned: initialize_save has started the threads.
SetupDone ==
    /\ pc \notin {"initialize_parameter", "initialize_playback", "initialize_save"}
    /\ exit_reason \notin SetupErrors \cup {"help"}

\* Captures read so far that hold a sub-image for m; for depth under
\* --transform, those whose transformation yields an image.
FramesWith(m) ==
    {n \in 1..Len(source) :
        /\ source[n][m]
        /\ (m = "depth" /\ argv.transform) => source[n].tr}

\* C1: when the run ends at the end of the recording, every enabled modality
\* has as many files as captures with a sub-image for it, and every entry
\* pushed was popped and written.
C1_NoDataLoss ==
    (pc = "exited" /\ exit_reason = "eof") =>
        \A m \in Modalities :
            IsEnabled(m) =>
                /\ queue[m] = <<>>
                /\ Len(written[m]) = Len(pushed[m])
                /\ Len(written[m]) = Cardinality(FramesWith(m))

\* C2: the k-th file of a modality has sequence number k-1 and the timestamp
\* of the k-th entry pushed onto its queue.
C2_WrittenInPushOrder ==
    \A m \in Modalities :
        \A k \in 1..Len(written[m]) :
            /\ k <= Len(pushed[m])
            /\ written[m][k].seq = k - 1
            /\ written[m][k].ts = pushed[m][k].ts

\* C3: under --transform nothing is pushed onto the depth queue for a capture
\* whose transformation yields no image: the pushes number the captures with
\* depth less those, and the sequence numbers of the files have no gap.
C3_EmptyTransformNotQueued ==
    (is_transform /\ is_depth) =>
        /\ Len(pushed["depth"]) = Cardinality(FramesWith("depth"))
        /\ \A k \in 1..Len(written["depth"]) : written["depth"][k].seq = k - 1

\* What the n-th capture of the recording puts on the queue of m, from the
\* recording and the options other than --display.
SourceEntry(m, n) ==
    IF m \notin mkv.tracks \/ ~source[n][m]
    THEN <<>>
    ELSE IF m = "depth" /\ argv.transform
         THEN <<[ts |-> DeviceTimestamp("depth", n),
                 buf |-> IF source[n].tr THEN <<"transformed", n>> ELSE <<>>]>>
         ELSE <<[ts |-> DeviceTimestamp(m, n), buf |-> <<m, n>>]>>

RECURSIVE QueuedFrom(_, _)
QueuedFrom(m, n) ==
    IF n = 0 THEN <<>> ELSE QueuedFrom(m, n - 1) \o SourceEntry(m, n)

\* A file of m is one of the entries pushed, under the number of its place in
\* the queue.
FileOfEntry(m, file) ==
    /\ file.seq + 1 \in 1..Len(pushed[m])
    /\ file.ts = pushed[m][file.seq + 1].ts
    /\ file.buf \in {pushed[m][file.seq + 1].buf, <<"garbage">>}

C5_ExitStatus ==
    pc = "exited" =>
        /\ exit_reason \in {"eof", "help"} => exit_status = 0
        /\ exit_reason \in SetupErrors => exit_status # 0

\* C6: a run whose output root is absent, or present and empty, gets past the
\* creation of the root directory unless the file system reports an error.
C6_RerunSucceeds ==
    exit_reason = "root directory" => fsys.error = "root"

\* The quality min(max(0, q), 100) of a command line.
Clamped(q) ==
    IF ~q.has THEN 95
    ELSE IF q.value < 0 THEN 0
    ELSE IF q.value > 100 THEN 100
    ELSE q.value

\* C7: the quality stored, and the quality of every infrared file, is the
\* --quality value clamped into 0..100, and 95 without the option.
C7_QualityClamped ==
    (argv.kind = "ok" /\ pc # "initialize_parameter") =>
        /\ params \in 0..100
        /\ params = Clamped(argv.quality)
        /\ \A k \in 1..Len(written["infrared"]) :
              written["infrared"][k].quality = Clamped(argv.quality)

C7_Clamped150 ==
    /\ argv.quality = [has |-> TRUE, value |-> 150]
    /\ Len(written["infrared"]) > 0
    /\ written["infrared"][1].quality = 100

\* C8: once the constructor has returned, a modality has an exporter thread
\* iff its track is enabled (and none before); nothing is ever pushed onto
\* the queue of a modality whose track is disabled.
C8_ThreadIffEnabled ==
    \A m \in Modalities :
        /\ (thread[m] # "none") <=> (SetupDone /\ m \in mkv.tracks)
        /\ m \notin mkv.tracks => pushed[m] = <<>> /\ queue[m] = <<>>

C8_DepthDisabledTransform ==
    /\ "depth" \notin mkv.tracks
    /\ thread["depth"] = "none"
    /\ thread["color"] # "none"
    /\ is_transform
    /\ \E n \in 1..Len(source) : source[n].depth

\* C9: a recording without captures ends with status 0, the subdirectory of
\* every enabled modality created, nothing pushed, popped or written.
C9_EmptySource ==
    (pc = "exited" /\ exit_reason = "eof" /\ source = <<>>) =>
        /\ exit_status = 0
        /\ fsys.root = "created"
        /\ fsys.sub = mkv.tracks
        /\ \A m \in Modalities :
              /\ pushed[m] = <<>>
              /\ written[m] = <<>>
              /\ index[m] = 0
              /\ data[m] = NoData

C9_EmptySourceEnded ==
    /\ pc = "exited" /\ exit_reason = "eof" /\ source = <<>>
    /\ mkv.tracks = Modalities

\* C10: once finalize has set is_quit, every exporter returns and every join
\* returns (or the process has ended).
C10_TeardownTerminates ==
    (pc = "join_color") ~> (pc \in {"finalize_windows", "return", "exited"})

\* The exporter of m has left its loop: export_color, export_depth or
\* export_infrared has returned.
Returned(m) == thread[m] \in {"done", "joined"}

\* C11: an exporter that has returned has left its queue empty, and every
\* entry pushed onto the queue was popped and written, once each: there are
\* as many files as entries, under different names.
C11_DrainOnStop ==
    \A m \in Modalities :
        Returned(m) =>
            /\ queue[m] = <<>>
            /\ data[m] = NoData
            /\ Len(written[m]) = Len(pushed[m])
            /\ \A j, k \in 1..Len(written[m]) :
                  j # k => written[m][j].seq # written[m][k].seq

\* finalize has executed is_quit = true and has not returned yet.
StopRequested == pc \in {"join_color", "join_depth", "join_infrared", "finalize_windows"}

\* C12: once the control thread has set the stop flag it stays set: no
\* exporter writes it back to false.
C12_FlagStaysSet == StopRequested => is_quit

\* finalize has released the transformation and the playback.
Released == SetupDone /\ playback = "closed" /\ ~transformation

\* C13: the playback and the transformation are released only after the stop
\* flag was set and every exporter thread was joined: no exporter is running
\* when they are released.
C13_ReleaseAfterJoin ==
    Released => \A m \in Modalities : thread[m] \in {"none", "joined"}

\* The places in the depth queue's history of the entries with the device
\* timestamp of the depth sub-image of the n-th capture.
DepthEntries(n) ==
    {k \in 1..Len(pushed["depth"]) :
        pushed["depth"][k].ts = DeviceTimestamp("depth", n)}

\* C14: with the depth track enabled, every capture read with a depth
\* sub-image has exactly one entry on the depth queue, and no other entry is
\* there: the depth buffer without --transform, the buffer of the transformed
\* image (never the depth buffer) with it.
C14_OneDepthEntry ==
    (SetupDone /\ "depth" \in mkv.tracks) =>
        /\ Len(pushed["depth"]) = Cardinality({n \in 1..Len(source) : source[n].depth})
        /\ \A n \in 1..Len(source) :
              source[n].depth =>
                  /\ Cardinality(DepthEntries(n)) = 1
                  /\ \A k \in DepthEntries(n) :
                        IF argv.transform
                        THEN pushed["depth"][k].buf \in {<<"transformed", n>>, EmptyBuffer}
                        ELSE pushed["depth"][k].buf = <<"depth", n>>

C14_TransformedQueued ==
    /\ is_depth /\ is_transform
    /\ Len(source) = 2
    /\ source[1].depth /\ source[2].depth
    /\ pushed["depth"][2].buf = <<"transformed", 2>>

\* C15: the sequence counter of a modality is the number of files its
\* exporter has written, and no two of its files bear the same number.
C15_IndexCountsFiles ==
    \A m \in Modalities :
        /\ index[m] = Len(written[m])
        /\ \A j, k \in 1..Len(written[m]) :
              j # k => written[m][j].seq # written[m][k].seq

\* C16: a write that failed has ended the process: no exporter goes on after
\* it.
C16_WriteFailureFatal == fails > 0 => pc = "exited" /\ exit_status # EXIT_SUCCESS

\* C17: while the constructor runs, and after it has thrown (bad arguments,
\* bad input path, recording not opened, root or sub directory not created),
\* no exporter thread exists.
C17_NoThreadOnFailedSetup ==
    (\/ pc \in {"initialize_parameter", "initialize_playback", "initialize_save"}
     \/ exit_reason \in SetupErrors) =>
        \A m \in Modalities : thread[m] = "none"

C17_SubDirectoryFailed ==
    /\ exit_reason = "sub directory"
    /\ is_color /\ is_depth /\ is_infrared
    /\ \A m \in Modalities : thread[m] = "none"

\* C18: an exporter has returned only after the control thread entered
\* finalize (the playback and the transformation are released) and set the
\* stop flag there: never during the constructor or the loop of run().
C18_ReturnOnlyInTeardown ==
    \A m \in Modalities :
        Returned(m) =>
            /\ Released
            /\ pc \in {"join_color", "join_depth", "join_infrared",
                       "finalize_windows", "return", "exited"}

C18_ColorReturned ==
    /\ pc = "join_color"
    /\ thread["color"] = "done"
    /\ Len(written["color"]) = 1

\* The k-th capture read that holds a depth sub-image.
DepthCapture(k) ==
    CHOOSE n \in 1..Len(source) :
        /\ source[n].depth
        /\ Cardinality({j \in 1..n : source[j].depth}) = k

\* C19: with --transform as without it, the k-th entry pushed onto the depth
\* queue carries the device timestamp of the depth sub-image of the k-th
\* capture that has one, and every depth file bears the timestamp of the
\* entry it was written from.
C19_DepthTimestamp ==
    (SetupDone /\ "depth" \in mkv.tracks) =>
        /\ \A k \in 1..Len(pushed["depth"]) :
              /\ k <= Cardinality({n \in 1..Len(source) : source[n].depth})
              /\ pushed["depth"][k].ts = DeviceTimestamp("depth", DepthCapture(k))
        /\ \A k \in 1..Len(written["depth"]) :
              \E n \in 1..Len(source) :
                  /\ source[n].depth
                  /\ written["depth"][k].ts = DeviceTimestamp("depth", n)

C19_TransformedFile ==
    /\ is_transform
    /\ Len(written["depth"]) = 2
    /\ written["depth"][2].buf = <<"transformed", 2>>
    /\ written["depth"][2].ts = DeviceTimestamp("depth", 2)

====
